---- MODULE Spec2Model ----
(***************************************************************************)
(* Model of the bio.tools registry reconciler scripts                      *)
(*   scripts/runbiotools/gh2biotools.py   (script = 1)                     *)
(*   scripts/runbiotools/gh2biotools2.py  (script = 2)                     *)
(*   scripts/runbiotools/gh2biotools3.py  (script = 3)                     *)
(* One behaviour is one run of one script: the upload loop of run_upload,  *)
(* its summary, the deletion loop of the main block and the end of the     *)
(* main block.  The registry is the environment: every HTTP call draws its *)
(* outcome (a status, or 0 for a transport exception raised by requests)   *)
(* from a small set.  An exception that nothing catches ends the run with  *)
(* a traceback and exit status 1 (pc = "aborted").  Log and error message  *)
(* texts are not modelled.                                                 *)
(***************************************************************************)
EXTENDS Integers, Sequences, FiniteSets, TLC

(***************************************************************************)
(* Bounds                                                                  *)
(***************************************************************************)
MaxFiles == 2
MaxDeleted == 1

(***************************************************************************)
(* JSON values, tagged by kind.  "invalid" stands for a file or a response *)
(* body that json.load / response.json() rejects, "unbound" for a local    *)
(* variable that was never assigned, "none" for Python's None.             *)
(***************************************************************************)
Str(s) == [kind |-> "str", s |-> s]
Map(f) == [kind |-> "map", items |-> f]
List(q) == [kind |-> "list", items |-> q]
None == [kind |-> "none"]
Invalid == [kind |-> "invalid"]
Unbound == [kind |-> "unbound"]

\* boltons remap(root, visit = lambda p, k, v: k != 'term'): rebuilds the
\* tree, dropping every mapping item whose key is 'term', at any depth.
RECURSIVE remap(_)
remap(v) ==
  IF v.kind = "map"
    THEN Map([k \in (DOMAIN v.items) \ {"term"} |-> remap(v.items[k])])
  ELSE IF v.kind = "list"
    THEN List([j \in DOMAIN v.items |-> remap(v.items[j])])
  ELSE v

\* dict.get(key): the value, or None when the key is absent
Get(pd, key) == IF key \in DOMAIN pd.items THEN pd.items[key] ELSE None

\* Python truthiness of a JSON value, negated: `not v`
Falsy(v) ==
  \/ v.kind = "none"
  \/ v.kind = "str" /\ v.s = ""
  \/ v.kind \in {"map", "list"} /\ DOMAIN v.items = {}

\* the text of an identifier value, as it appears in URLs and result lists
IdOf(v) == IF v.kind = "str" THEN v.s ELSE "?"

(***************************************************************************)
(* Inputs: local files and remote bodies                                   *)
(***************************************************************************)
DocX ==
  Map(("biotoolsID" :> Str("X")) @@ ("name" :> Str("n")) @@
      ("topic" :> List(<<Map(("term" :> Str("t")) @@ ("uri" :> Str("u")))>>)))
NoId == Map(("name" :> Str("n")) @@ ("term" :> Str("t")))
EmptyId == Map(("biotoolsID" :> Str("")) @@ ("name" :> Str("n")))
ListDoc == List(<<Str("X")>>)

\* what a local .biotools.json file can hold
FileContents == {Invalid, ListDoc, NoId, EmptyId, DocX}

\* remote record equal to DocX up to `term` keys, but not literally
RemoteSame ==
  Map(("biotoolsID" :> Str("X")) @@ ("name" :> Str("n")) @@ ("term" :> Str("z")) @@
      ("topic" :> List(<<Map(("term" :> Str("t2")) @@ ("uri" :> Str("u")))>>)))
\* remote record that differs from DocX in a field other than `term`
RemoteDiff ==
  Map(("biotoolsID" :> Str("X")) @@ ("name" :> Str("m")) @@
      ("topic" :> List(<<Map(("term" :> Str("t")) @@ ("uri" :> Str("u")))>>)))

\* what the body of a GET 200 response can hold
Bodies == {RemoteSame, RemoteDiff, Invalid}

DeletedIds == {"X", "Y"}

\* status 0: the requests call raised a transport exception
GetStatuses == {0, 200, 404, 500}
ValStatuses == {0, 200, 400}
MutStatuses == {0, 200, 400}
DelStatuses == {0, 204, 404, 500}

\* the registry's answers during one loop iteration: the status and body of
\* the GET, the status of the validation call, the status of the PUT / POST
\* and whether its body parses as JSON.  An answer to a call that no script
\* makes (anything after a GET that is neither 200 nor 404, a body of a
\* non-200 GET, a validation in gh2biotools.py, a parse of the PUT / POST
\* body outside gh2biotools.py) is fixed to one value.
AllEnvs ==
  [get : GetStatuses, body : Bodies, val : ValStatuses, mut : MutStatuses,
   json : BOOLEAN]

Envs(s) ==
  {e \in AllEnvs :
     /\ e.get # 200 => e.body = Invalid
     /\ e.get \in {0, 500} => e.val = 200 /\ e.mut = 200 /\ e.json
     /\ s = 1 => e.val = 200
     /\ s # 1 => e.json}

SeqsUpTo(S, n) == UNION {[1..m -> S] : m \in 0..n}

(***************************************************************************)
(* HTTP helpers                                                            *)
(***************************************************************************)
\* a request and the response it got; body is the parsed body of a 200 GET
Req(method, url, id, status) ==
  [method |-> method, url |-> url, id |-> id, status |-> status, body |-> None]

GetReq(id, e) ==
  [method |-> "GET", url |-> "tool_id", id |-> id, status |-> e.get,
   body |-> IF e.get = 200 THEN e.body ELSE None]

\* requests.Response.ok: no 4xx / 5xx status
ResponseOk(status) == status < 400

\* what one pass through the loop body does: the requests sent, the ids
\* appended to each list, the value left in payload_dict, and the exception
\* that left the except clause uncaught ("" when none did)
Result(rq, ok, ko, unch, pd, exc) ==
  [reqs |-> rq, ok |-> ok, ko |-> ko, unch |-> unch, pd |-> pd, exc |-> exc]

(***************************************************************************)
(* gh2biotools2.py                                                         *)
(***************************************************************************)
\* variant: the validation verdict ignores the response status
validate_upload_tool_alwaysValid(tool, st) ==
  [req |-> Req("POST", "validate", IdOf(Get(tool, "biotoolsID")), st),
   raised |-> st = 0,
   valid |-> TRUE]

\* validate_upload_tool: POST /api/tool/validate/, returns response.ok;
\* a transport exception is not caught here
validate_upload_tool(tool, st) ==
  [req |-> Req("POST", "validate", IdOf(Get(tool, "biotoolsID")), st),
   raised |-> st = 0,
   valid |-> ResponseOk(st)]

\* upload_tool: POST /api/tool/, True unless requests raised
upload_tool2(tool, st) ==
  [req |-> Req("POST", "tool", IdOf(Get(tool, "biotoolsID")), st),
   success |-> st # 0]

\* validate_update_tool: PUT /api/tool/{id}/validate/, returns response.ok
validate_update_tool(tool, st) ==
  [req |-> Req("PUT", "tool_id_validate", IdOf(Get(tool, "biotoolsID")), st),
   raised |-> st = 0,
   valid |-> ResponseOk(st)]

\* update_tool: PUT /api/tool/{id}/, True unless requests raised
update_tool2(tool, st) ==
  [req |-> Req("PUT", "tool_id", IdOf(Get(tool, "biotoolsID")), st),
   success |-> st # 0]

\* variant: only an absent key counts as a missing identifier
MissingId2_absentOnly(pd) == "biotoolsID" \notin DOMAIN pd.items

\* `if not tool_id` after tool_id = payload_dict.get("biotoolsID")
MissingId2(pd) == Falsy(Get(pd, "biotoolsID"))

\* existing_tool = remap(response.json(), ...)
Existing2(body) == remap(body)

\* except Exception: tools_ko.append(payload_dict.get("biotoolsID", "UNKNOWN"))
\* payload_dict is whatever the local variable holds at that point: unbound
\* (UnboundLocalError) or not a dict (AttributeError) leaves the handler with
\* an exception that nothing catches.
ExceptHandler2(pd, rq) ==
  IF pd.kind = "unbound"
    THEN Result(rq, <<>>, <<>>, <<>>, pd, "UnboundLocalError")
  ELSE IF pd.kind # "map"
    THEN Result(rq, <<>>, <<>>, <<>>, pd, "AttributeError")
  ELSE IF "biotoolsID" \in DOMAIN pd.items
    THEN Result(rq, <<>>, <<IdOf(pd.items["biotoolsID"])>>, <<>>, pd, "")
  ELSE Result(rq, <<>>, <<"UNKNOWN">>, <<>>, pd, "")

\* the 200 / different branch: validate the update, then update
Update2(pd, tid, get, e) ==
  LET v == validate_update_tool(pd, e.val)
      u == update_tool2(pd, e.mut)
  IN IF v.raised THEN ExceptHandler2(pd, <<get, v.req>>)
     ELSE IF v.valid
       THEN IF u.success
              THEN Result(<<get, v.req, u.req>>, <<tid>>, <<>>, <<>>, pd, "")
              ELSE Result(<<get, v.req, u.req>>, <<>>, <<tid>>, <<>>, pd, "")
     ELSE Result(<<get, v.req>>, <<>>, <<tid>>, <<>>, pd, "")

\* the 404 branch: validate the creation, then upload
Create2(pd, tid, get, e) ==
  LET v == validate_upload_tool(pd, e.val)
      u == upload_tool2(pd, e.mut)
  IN IF v.raised THEN ExceptHandler2(pd, <<get, v.req>>)
     ELSE IF v.valid
       THEN IF u.success
              THEN Result(<<get, v.req, u.req>>, <<tid>>, <<>>, <<>>, pd, "")
              ELSE Result(<<get, v.req, u.req>>, <<>>, <<tid>>, <<>>, pd, "")
     ELSE Result(<<get, v.req>>, <<>>, <<tid>>, <<>>, pd, "")

\* one iteration of the for loop of run_upload: file content f, the value
\* pd0 that payload_dict holds when the iteration starts, the registry's
\* answers e
LoopBody2(f, pd0, e) ==
  IF f.kind = "invalid" THEN ExceptHandler2(pd0, <<>>)
  ELSE
    LET pd == remap(f) IN
    IF pd.kind # "map" THEN ExceptHandler2(pd, <<>>)
    ELSE IF MissingId2(pd)
      THEN Result(<<>>, <<>>, <<"UNKNOWN">>, <<>>, pd, "")
    ELSE
      LET tid == IdOf(Get(pd, "biotoolsID"))
          get == GetReq(tid, e)
      IN IF e.get = 0 THEN ExceptHandler2(pd, <<get>>)
         ELSE IF e.get = 200
           THEN IF e.body.kind = "invalid" THEN ExceptHandler2(pd, <<get>>)
                ELSE IF Existing2(e.body) = pd
                  THEN Result(<<get>>, <<>>, <<>>, <<tid>>, pd, "")
                ELSE Update2(pd, tid, get, e)
         ELSE IF e.get = 404 THEN Create2(pd, tid, get, e)
         ELSE Result(<<get>>, <<>>, <<tid>>, <<>>, pd, "")

(***************************************************************************)
(* gh2biotools3.py                                                         *)
(***************************************************************************)
\* validate_tool: POST /api/tool/validate/, returns r.ok
validate_tool(tool, st) ==
  [req |-> Req("POST", "validate", IdOf(Get(tool, "biotoolsID")), st),
   raised |-> st = 0,
   valid |-> ResponseOk(st)]

\* upload_tool: POST /api/tool/, True unless requests raised (no
\* raise_for_status, so the HTTPError clause never runs)
upload_tool3(tool, st) ==
  [req |-> Req("POST", "tool", IdOf(Get(tool, "biotoolsID")), st),
   success |-> st # 0]

\* update_tool: PUT /api/tool/{id}/, True unless requests raised
update_tool3(tool, st) ==
  [req |-> Req("PUT", "tool_id", IdOf(Get(tool, "biotoolsID")), st),
   success |-> st # 0]

\* `if not tool_id` after tool_id = payload_dict.get("biotoolsID")
MissingId3(pd) == Falsy(Get(pd, "biotoolsID"))

\* existing_tool = remap(response.json(), ...)
Existing3(body) == remap(body)

\* except Exception: tools_ko.append((payload_dict["biotoolsID"], str(e)))
\* unbound (UnboundLocalError), not a dict (TypeError) or without the key
\* (KeyError): the handler itself raises and nothing catches it.
ExceptHandler3(pd, rq) ==
  IF pd.kind = "unbound"
    THEN Result(rq, <<>>, <<>>, <<>>, pd, "UnboundLocalError")
  ELSE IF pd.kind # "map"
    THEN Result(rq, <<>>, <<>>, <<>>, pd, "TypeError")
  ELSE IF "biotoolsID" \notin DOMAIN pd.items
    THEN Result(rq, <<>>, <<>>, <<>>, pd, "KeyError")
  ELSE Result(rq, <<>>, <<IdOf(pd.items["biotoolsID"])>>, <<>>, pd, "")

\* the 200 / different branch: update, without a validation call
Update3(pd, tid, get, e) ==
  LET u == update_tool3(pd, e.mut)
  IN IF u.success
       THEN Result(<<get, u.req>>, <<tid>>, <<>>, <<>>, pd, "")
       ELSE Result(<<get, u.req>>, <<>>, <<tid>>, <<>>, pd, "")

\* the 404 branch: validate, then upload
Create3(pd, tid, get, e) ==
  LET v == validate_tool(pd, e.val)
      u == upload_tool3(pd, e.mut)
  IN IF v.raised THEN ExceptHandler3(pd, <<get, v.req>>)
     ELSE IF v.valid
       THEN IF u.success
              THEN Result(<<get, v.req, u.req>>, <<tid>>, <<>>, <<>>, pd, "")
              ELSE Result(<<get, v.req, u.req>>, <<>>, <<tid>>, <<>>, pd, "")
     ELSE Result(<<get, v.req>>, <<>>, <<tid>>, <<>>, pd, "")

\* one iteration of the for loop of run_upload
LoopBody3(f, pd0, e) ==
  IF f.kind = "invalid" THEN ExceptHandler3(pd0, <<>>)
  ELSE
    LET pd == remap(f) IN
    IF pd.kind # "map" THEN ExceptHandler3(pd, <<>>)
    ELSE IF MissingId3(pd)
      THEN Result(<<>>, <<>>, <<"UNKNOWN">>, <<>>, pd, "")
    ELSE
      LET tid == IdOf(Get(pd, "biotoolsID"))
          get == GetReq(tid, e)
      IN IF e.get = 0 THEN ExceptHandler3(pd, <<get>>)
         ELSE IF e.get = 200
           THEN IF e.body.kind = "invalid" THEN ExceptHandler3(pd, <<get>>)
                ELSE IF Existing3(e.body) = pd
                  THEN Result(<<get>>, <<>>, <<>>, <<tid>>, pd, "")
                ELSE Update3(pd, tid, get, e)
         ELSE IF e.get = 404 THEN Create3(pd, tid, get, e)
         ELSE Result(<<get>>, <<>>, <<tid>>, <<>>, pd, "")

(***************************************************************************)
(* gh2biotools.py                                                          *)
(***************************************************************************)
\* variant: the remote record is compared without stripping `term`
Existing1_raw(body) == body

\* existing_tool = remap(response.json(), ...)
Existing1(body) == remap(body)

\* both except clauses: tools_ko.append(payload_dict["biotoolsID"]); ok is
\* what the try block had already appended to tools_ok
ExceptHandler1(pd, rq, ok) ==
  IF pd.kind = "unbound"
    THEN Result(rq, ok, <<>>, <<>>, pd, "UnboundLocalError")
  ELSE IF pd.kind # "map"
    THEN Result(rq, ok, <<>>, <<>>, pd, "TypeError")
  ELSE IF "biotoolsID" \notin DOMAIN pd.items
    THEN Result(rq, ok, <<>>, <<>>, pd, "KeyError")
  ELSE Result(rq, ok, <<IdOf(pd.items["biotoolsID"])>>, <<>>, pd, "")

\* response = requests.put / requests.post; response.raise_for_status();
\* tools_ok.append(...); logging.debug(response.json())
Submit1(pd, tid, get, req, e) ==
  IF e.mut = 0 \/ ~ResponseOk(e.mut) THEN ExceptHandler1(pd, <<get, req>>, <<>>)
  ELSE IF ~e.json THEN ExceptHandler1(pd, <<get, req>>, <<tid>>)
  ELSE Result(<<get, req>>, <<tid>>, <<>>, <<>>, pd, "")

\* one iteration of the for loop of run_upload; the 404 branch posts to
\* url = HOST + '/api/tool/validate/'; a status other than 200 and 404
\* falls through the if / elif
LoopBody1(f, pd0, e) ==
  IF f.kind = "invalid" THEN ExceptHandler1(pd0, <<>>, <<>>)
  ELSE
    LET pd == remap(f) IN
    IF pd.kind # "map" \/ "biotoolsID" \notin DOMAIN pd.items
      THEN ExceptHandler1(pd, <<>>, <<>>)
    ELSE
      LET tid == IdOf(pd.items["biotoolsID"])
          get == GetReq(tid, e)
      IN IF e.get = 0 THEN ExceptHandler1(pd, <<get>>, <<>>)
         ELSE IF e.get = 200
           THEN IF e.body.kind = "invalid" THEN ExceptHandler1(pd, <<get>>, <<>>)
                ELSE IF Existing1(e.body) = pd
                  THEN Result(<<get>>, <<>>, <<>>, <<tid>>, pd, "")
                ELSE Submit1(pd, tid, get, Req("PUT", "tool_id", tid, e.mut), e)
         ELSE IF e.get = 404
           THEN Submit1(pd, tid, get, Req("POST", "validate", tid, e.mut), e)
         ELSE Result(<<get>>, <<>>, <<>>, <<>>, pd, "")

(***************************************************************************)
(* Deletion and end of the main block                                      *)
(***************************************************************************)
\* delete_tool: DELETE /api/tool/{id}/; 204, 404 and any other status are
\* only logged; a transport exception is not caught
delete_tool(biotools_id, st) ==
  [req |-> Req("DELETE", "tool_id", biotools_id, st), raised |-> st = 0]

\* names bound at module level of gh2biotools3.py when `if tools_ko:` runs
ModuleNames3 ==
  {"HEADERS", "HOST", "TOOL_API_URL", "VALIDATE_API_URL", "GITHUB_SHA",
   "validate_tool", "upload_tool", "update_tool", "delete_tool", "run_upload",
   "parser", "args"}

(***************************************************************************)
(* biocontainers-importer.py                                               *)
(***************************************************************************)
\* the annotation files <content_data_path>/<key>/<key>.biocontainers.yaml
AnnotationKeys == {"toolA", "toolB", "404"}

\* response bodies, by what YAML makes of the text: a mapping (its items in
\* document order), a plain scalar, an empty document, or malformed text
MappingBody(items) == [kind |-> "mapping", items |-> items]
AnnotationsBody ==
  MappingBody(<<[key |-> "toolA", value |-> "A"], [key |-> "toolB", value |-> "B"]>>)
\* the text `404: Not Found`, as a static file host answers a missing path
NotFoundBody == MappingBody(<<[key |-> "404", value |-> "Not Found"]>>)
ScalarBody == [kind |-> "scalar"]
EmptyBody == [kind |-> "empty"]
MalformedBody == [kind |-> "malformed"]
ImportBodies == {AnnotationsBody, NotFoundBody, ScalarBody, EmptyBody, MalformedBody}

\* status 0: requests.get raised a transport exception
FetchStatuses == {0, 200, 404, 500}

\* yaml.safe_load(r.text): the parsed value, or the exception raised
yaml_safe_load(body) ==
  IF body.kind = "malformed" THEN [exc |-> "YAMLError", value |-> None]
  ELSE IF body.kind = "mapping" THEN [exc |-> "", value |-> body]
  ELSE IF body.kind = "scalar" THEN [exc |-> "", value |-> Str("scalar")]
  ELSE [exc |-> "", value |-> None]

\* import_biocontainers_annotations up to the for loop: requests.get (no
\* raise_for_status), r.text, yaml.safe_load, annotations.items()
Fetch(st, body) ==
  LET y == yaml_safe_load(body) IN
  IF st = 0 THEN [exc |-> "ConnectionError", annotations |-> <<>>]
  ELSE IF y.exc # "" THEN [exc |-> y.exc, annotations |-> <<>>]
  ELSE IF y.value.kind # "mapping"
    THEN [exc |-> "AttributeError", annotations |-> <<>>]
  ELSE [exc |-> "", annotations |-> y.value.items]

VARIABLES script, files, deleted, i, d, pc, payload_dict,
          tools_ok, tools_ko, tools_unchanged, reqs, exit_code, report_written,
          raised

\* state of a run of biocontainers-importer.py: position, status of the
\* fetch, items of the parsed document, index of the next item, content of
\* the annotation files, uncaught exception
VARIABLES imp_pc, r_status, annotations, imp_n, fs, imp_raised

recVars == <<script, files, deleted, i, d, pc, payload_dict,
             tools_ok, tools_ko, tools_unchanged, reqs, exit_code,
             report_written, raised>>

impVars == <<imp_pc, r_status, annotations, imp_n, fs, imp_raised>>

vars == <<recVars, impVars>>

\* the importer is not running
ImpIdle ==
  /\ imp_pc = "idle"
  /\ r_status = -1
  /\ annotations = <<>>
  /\ imp_n = 1
  /\ fs = [k \in AnnotationKeys |-> "absent"]
  /\ imp_raised = ""

Init ==
  /\ script \in {1, 2, 3}
  /\ files \in SeqsUpTo(FileContents, MaxFiles)
  /\ deleted \in SeqsUpTo(DeletedIds, MaxDeleted)
  /\ i = 1
  /\ d = 1
  /\ pc = "upload"
  /\ payload_dict = Unbound
  /\ tools_ok = <<>>
  /\ tools_ko = <<>>
  /\ tools_unchanged = <<>>
  /\ reqs = <<>>
  /\ exit_code = -1
  /\ report_written = FALSE
  /\ raised = ""
  /\ ImpIdle

\* entries of the result lists and of the request log carry the index of the
\* file whose iteration produced them (0 for the deletion loop)
Tag(q, n) == [j \in DOMAIN q |-> [file |-> n, id |-> q[j]]]
TagReq(q, n) ==
  [j \in DOMAIN q |->
     [file |-> n, method |-> q[j].method, url |-> q[j].url, id |-> q[j].id,
      status |-> q[j].status, body |-> q[j].body]]

\* the effect of one loop iteration with result r; an exception leaving the
\* handler ends the process with a traceback and exit status 1
Apply(r) ==
  /\ reqs' = reqs \o TagReq(r.reqs, i)
  /\ tools_ok' = tools_ok \o Tag(r.ok, i)
  /\ tools_ko' = tools_ko \o Tag(r.ko, i)
  /\ tools_unchanged' = tools_unchanged \o Tag(r.unch, i)
  /\ payload_dict' = r.pd
  /\ i' = i + 1
  /\ IF r.exc # ""
       THEN pc' = "aborted" /\ exit_code' = 1 /\ raised' = r.exc
       ELSE pc' = pc /\ exit_code' = exit_code /\ raised' = raised
  /\ UNCHANGED <<script, files, deleted, d, report_written>>
  /\ UNCHANGED impVars

ProcessFile1 ==
  /\ script = 1 /\ pc = "upload" /\ i <= Len(files)
  /\ \E e \in Envs(1) : Apply(LoopBody1(files[i], payload_dict, e))

ProcessFile2 ==
  /\ script = 2 /\ pc = "upload" /\ i <= Len(files)
  /\ \E e \in Envs(2) : Apply(LoopBody2(files[i], payload_dict, e))

ProcessFile3 ==
  /\ script = 3 /\ pc = "upload" /\ i <= Len(files)
  /\ \E e \in Envs(3) : Apply(LoopBody3(files[i], payload_dict, e))

\* gh2biotools.py: the summary ends run_upload and the script (the deletion
\* loop is commented out)
Summary1 ==
  /\ script = 1 /\ pc = "upload" /\ i > Len(files)
  /\ pc' = "done" /\ exit_code' = 0
  /\ UNCHANGED <<script, files, deleted, i, d, payload_dict, tools_ok,
                 tools_ko, tools_unchanged, reqs, report_written, raised>>
  /\ UNCHANGED impVars

\* gh2biotools2.py: summary, then `if tools_ko: sys.exit(1)` inside run_upload
Summary2 ==
  /\ script = 2 /\ pc = "upload" /\ i > Len(files)
  /\ IF tools_ko # <<>>
       THEN pc' = "done" /\ exit_code' = 1
       ELSE pc' = "delete" /\ exit_code' = exit_code
  /\ UNCHANGED <<script, files, deleted, i, d, payload_dict, tools_ok,
                 tools_ko, tools_unchanged, reqs, report_written, raised>>
  /\ UNCHANGED impVars

\* gh2biotools3.py: summary, run_upload returns None
Summary3 ==
  /\ script = 3 /\ pc = "upload" /\ i > Len(files)
  /\ pc' = "delete"
  /\ UNCHANGED <<script, files, deleted, i, d, payload_dict, tools_ok,
                 tools_ko, tools_unchanged, reqs, exit_code, report_written,
                 raised>>
  /\ UNCHANGED impVars

\* one iteration of `for deleted_file in args.deleted`
DeleteStep(st) ==
  LET r == delete_tool(deleted[d], st) IN
  /\ reqs' = reqs \o TagReq(<<r.req>>, 0)
  /\ d' = d + 1
  /\ IF r.raised
       THEN pc' = "aborted" /\ exit_code' = 1 /\ raised' = "ConnectionError"
       ELSE pc' = pc /\ exit_code' = exit_code /\ raised' = raised
  /\ UNCHANGED <<script, files, deleted, i, payload_dict, tools_ok, tools_ko,
                 tools_unchanged, report_written>>
  /\ UNCHANGED impVars

DeleteLoop2 ==
  /\ script = 2 /\ pc = "delete" /\ d <= Len(deleted)
  /\ \E st \in DelStatuses : DeleteStep(st)

DeleteLoop3 ==
  /\ script = 3 /\ pc = "delete" /\ d <= Len(deleted)
  /\ \E st \in DelStatuses : DeleteStep(st)

\* gh2biotools2.py: the main block ends after the deletion loop
MainEnd2 ==
  /\ script = 2 /\ pc = "delete" /\ d > Len(deleted)
  /\ pc' = "done" /\ exit_code' = 0
  /\ UNCHANGED <<script, files, deleted, i, d, payload_dict, tools_ok,
                 tools_ko, tools_unchanged, reqs, report_written, raised>>
  /\ UNCHANGED impVars

\* gh2biotools3.py: `if tools_ko:` at module level, then the report; the
\* name is looked up in the module namespace (NameError when absent)
MainEnd3 ==
  /\ script = 3 /\ pc = "delete" /\ d > Len(deleted)
  /\ IF "tools_ko" \notin ModuleNames3
       THEN /\ pc' = "aborted" /\ exit_code' = 1 /\ raised' = "NameError"
            /\ report_written' = report_written
       ELSE /\ pc' = "done" /\ exit_code' = 0 /\ raised' = raised
            /\ report_written' = (tools_ko # <<>>)
  /\ UNCHANGED <<script, files, deleted, i, d, payload_dict, tools_ok,
                 tools_ko, tools_unchanged, reqs>>
  /\ UNCHANGED impVars

Next ==
  \/ ProcessFile1
  \/ ProcessFile2
  \/ ProcessFile3
  \/ Summary1
  \/ Summary2
  \/ Summary3
  \/ DeleteLoop2
  \/ DeleteLoop3
  \/ MainEnd2
  \/ MainEnd3

Spec == Init /\ [][Next]_vars

TypeOK ==
  /\ i \in 1..(Len(files) + 1)
  /\ d \in 1..(Len(deleted) + 1)
  /\ pc \in {"upload", "delete", "done", "aborted"}
  /\ exit_code \in {-1, 0, 1}
  /\ (pc \in {"done", "aborted"}) = (exit_code # -1)
  /\ (pc = "aborted") = (raised # "")

(***************************************************************************)
(* A run of biocontainers-importer.py                                      *)
(***************************************************************************)
\* the reconciler is not running
RecIdle ==
  /\ script = 0 /\ files = <<>> /\ deleted = <<>> /\ i = 1 /\ d = 1
  /\ pc = "idle" /\ payload_dict = Unbound
  /\ tools_ok = <<>> /\ tools_ko = <<>> /\ tools_unchanged = <<>>
  /\ reqs = <<>> /\ exit_code = -1 /\ report_written = FALSE /\ raised = ""

\* the call at module level; every annotation file is absent or holds what
\* an earlier run left
ImpInit ==
  /\ RecIdle
  /\ imp_pc = "fetch"
  /\ r_status = -1
  /\ annotations = <<>>
  /\ imp_n = 1
  /\ fs \in [AnnotationKeys -> {"absent", "old"}]
  /\ imp_raised = ""

\* r = requests.get(url, stream=True) ... annotations = yaml.safe_load(r.text)
ImpFetch ==
  /\ imp_pc = "fetch"
  /\ \E st \in FetchStatuses, body \in ImportBodies :
       LET f == Fetch(st, body) IN
       /\ r_status' = st
       /\ annotations' = f.annotations
       /\ imp_raised' = f.exc
       /\ imp_pc' = IF f.exc # "" THEN "aborted" ELSE "write"
  /\ UNCHANGED <<imp_n, fs>>
  /\ UNCHANGED recVars

\* one iteration of `for key, value in annotations.items()`: os.makedirs,
\* open(..., "w"), yaml.dump; writable = FALSE when the directory or the
\* file cannot be written
ImpWrite ==
  /\ imp_pc = "write" /\ imp_n <= Len(annotations)
  /\ \E writable \in BOOLEAN :
       IF writable
         THEN /\ fs' = [fs EXCEPT ![annotations[imp_n].key] = annotations[imp_n].value]
              /\ imp_n' = imp_n + 1
              /\ UNCHANGED <<imp_pc, imp_raised>>
         ELSE /\ imp_pc' = "aborted" /\ imp_raised' = "OSError"
              /\ UNCHANGED <<fs, imp_n>>
  /\ UNCHANGED <<r_status, annotations>>
  /\ UNCHANGED recVars

\* the loop is exhausted, the function returns
ImpReturn ==
  /\ imp_pc = "write" /\ imp_n > Len(annotations)
  /\ imp_pc' = "done"
  /\ UNCHANGED <<r_status, annotations, imp_n, fs, imp_raised>>
  /\ UNCHANGED recVars

ImpNext ==
  \/ ImpFetch
  \/ ImpWrite
  \/ ImpReturn

ImportSpec == ImpInit /\ [][ImpNext]_vars

(***************************************************************************)
(* Vocabulary of the properties                                            *)
(***************************************************************************)
\* the files whose loop iteration has run
Processed == 1..(i - 1)

ReqIdx(n) == {j \in DOMAIN reqs : reqs[j].file = n}
Entries(list, n) == {j \in DOMAIN list : list[j].file = n}

\* a response with a non-error status arrived
NonError(st) == st # 0 /\ st < 400

HandlerErrors == {"UnboundLocalError", "AttributeError", "TypeError", "KeyError"}

\* the run ended in the iteration of file n with an uncaught exception
AbortedAt(n) == pc = "aborted" /\ raised \in HandlerErrors /\ n = i - 1

Parsed(n) == files[n].kind # "invalid"

\* positions of the 200 GETs of file n whose body is a JSON record
Gets200(n) ==
  {j \in ReqIdx(n) : /\ reqs[j].method = "GET" /\ reqs[j].status = 200
                     /\ reqs[j].body.kind # "invalid"}
Got404(n) == \E j \in ReqIdx(n) : reqs[j].method = "GET" /\ reqs[j].status = 404

\* the term-stripped remote record differs from / equals the term-stripped
\* local record
Differs(n) ==
  Parsed(n) /\ \E j \in Gets200(n) : remap(reqs[j].body) # remap(files[n])
SameAs(n) ==
  Parsed(n) /\ \E j \in Gets200(n) : remap(reqs[j].body) = remap(files[n])

\* PUT /api/tool/{id}/, PUT /api/tool/{id}/validate/, POST /api/tool/,
\* POST /api/tool/validate/ sent for file n
Puts(n) == {j \in ReqIdx(n) : reqs[j].method = "PUT" /\ reqs[j].url = "tool_id"}
PutVals(n) ==
  {j \in ReqIdx(n) : reqs[j].method = "PUT" /\ reqs[j].url = "tool_id_validate"}
Posts(n) == {j \in ReqIdx(n) : reqs[j].method = "POST" /\ reqs[j].url = "tool"}
PostVals(n) ==
  {j \in ReqIdx(n) : reqs[j].method = "POST" /\ reqs[j].url = "validate"}

InOk(n) == Entries(tools_ok, n) # {}
InKo(n) == Entries(tools_ko, n) # {}
InUnchanged(n) == Entries(tools_unchanged, n) # {}

\* an exception was raised in the try block of file n
Raised(n) ==
  \/ ~Parsed(n)
  \/ files[n].kind # "map"
  \/ script = 1 /\ "biotoolsID" \notin DOMAIN files[n].items
  \/ \E j \in ReqIdx(n) : reqs[j].status = 0
  \/ \E j \in ReqIdx(n) :
       reqs[j].method = "GET" /\ reqs[j].status = 200 /\ reqs[j].body.kind = "invalid"

\* the tool id of file n itself, "UNKNOWN" when it has none
OwnId(n) ==
  IF files[n].kind = "map" /\ "biotoolsID" \in DOMAIN files[n].items
    THEN IdOf(files[n].items["biotoolsID"])
    ELSE "UNKNOWN"

Ended == pc \in {"done", "aborted"}

\* the ids of the DELETE requests, in the order sent
RECURSIVE DeleteIds(_)
DeleteIds(q) ==
  IF q = <<>> THEN <<>>
  ELSE IF Head(q).method = "DELETE"
    THEN <<Head(q).id>> \o DeleteIds(Tail(q))
  ELSE DeleteIds(Tail(q))

(***************************************************************************)
(* Properties                                                              *)
(***************************************************************************)
\* C1: gh2biotools2.py and gh2biotools3.py: for every local record that
\* differs from the remote one after term-stripping, exactly one PUT to
\* /api/tool/{id}/ is sent, the file is in tools_ok iff that PUT got a
\* non-error status, and in tools_ko otherwise.  (A record whose update
\* validation did not pass is left to C7, which asks for no PUT there.)
C1_Claim ==
  \A n \in Processed :
    /\ script \in {2, 3}
    /\ Differs(n)
    /\ \A v \in PutVals(n) : NonError(reqs[v].status)
    => /\ Cardinality(Puts(n)) = 1
       /\ \A j \in Puts(n) :
            /\ InOk(n) <=> NonError(reqs[j].status)
            /\ ~NonError(reqs[j].status) => InKo(n)

\* C2: every script: an exception raised while handling file n leaves
\* exactly one entry for n in tools_ko, carrying n's own tool id or
\* "UNKNOWN", and does not end the run.
C2_Claim ==
  \A n \in Processed :
    Raised(n) =>
      /\ Cardinality(Entries(tools_ko, n)) = 1
      /\ \A j \in Entries(tools_ko, n) : tools_ko[j].id = OwnId(n)
      /\ ~AbortedAt(n)

\* C3: gh2biotools2.py: the run ends with a non-zero exit status iff
\* tools_ko is not empty.
C3_Claim ==
  script = 2 /\ Ended => ((exit_code # 0) <=> (tools_ko # <<>>))

\* C4: gh2biotools2.py, given changed files and deleted files: when the
\* script exits, one DELETE has been sent for every path of the deleted
\* list, in list order.
C4_Claim ==
  script = 2 /\ pc = "done" /\ files # <<>> /\ deleted # <<>> =>
    DeleteIds(reqs) = deleted

\* C5: gh2biotools3.py: once the main block reaches `if tools_ko:`, the
\* report is written exactly when run_upload's tools_ko is not empty, and
\* an empty tools_ko gives exit code 0.
C5_Claim ==
  script = 3 /\ (pc = "done" \/ raised = "NameError") =>
    /\ report_written <=> (tools_ko # <<>>)
    /\ tools_ko = <<>> => exit_code = 0

\* C6: every script: for a record whose GET returned 404 and whose creation
\* validation passed, a POST to /api/tool/ is sent, the file is in tools_ok
\* iff that POST got a non-error status, and in tools_ko otherwise.
C6_Claim ==
  \A n \in Processed :
    Got404(n) /\ (\E v \in PostVals(n) : NonError(reqs[v].status)) =>
      /\ Posts(n) # {}
      /\ \A j \in Posts(n) :
           /\ InOk(n) <=> NonError(reqs[j].status)
           /\ ~NonError(reqs[j].status) => InKo(n)

\* C7: gh2biotools2.py and gh2biotools3.py: for a record that differs from
\* the remote one, every PUT to /api/tool/{id}/ is preceded by a validation
\* request for the update, and a failed validation puts the file in tools_ko
\* with no PUT to /api/tool/{id}/.
C7_Claim ==
  \A n \in Processed :
    script \in {2, 3} /\ Differs(n) =>
      /\ \A j \in Puts(n) : \E v \in PutVals(n) : v < j
      /\ \A v \in PutVals(n) :
           ~NonError(reqs[v].status) => InKo(n) /\ Puts(n) = {}

\* C8: gh2biotools2.py and gh2biotools3.py: a file whose parsed record has
\* no biotoolsID, or an empty one, gets exactly one entry in tools_ko and no
\* other entry, no HTTP request is sent for it, and the loop goes on.
C8_MissingIdFails ==
  \A n \in Processed :
    script \in {2, 3} /\ files[n].kind = "map" /\ Falsy(Get(files[n], "biotoolsID")) =>
      /\ Cardinality(Entries(tools_ko, n)) = 1
      /\ ~InOk(n) /\ ~InUnchanged(n)
      /\ ReqIdx(n) = {}
      /\ ~AbortedAt(n)

\* a file without identifier was handled and the file after it as well
C8_Witness ==
  /\ script \in {2, 3}
  /\ \E n \in Processed :
       /\ files[n].kind = "map" /\ Falsy(Get(files[n], "biotoolsID"))
       /\ InKo(n)
       /\ n + 1 \in Processed

\* C9: gh2biotools2.py and gh2biotools3.py: for a record whose GET returned
\* 404, exactly one POST /api/tool/validate/ is sent, after it at most one
\* POST /api/tool/, and none when the validation failed.
C9_ValidateThenPost ==
  \A n \in Processed :
    script \in {2, 3} /\ Got404(n) =>
      /\ Cardinality(PostVals(n)) = 1
      /\ Cardinality(Posts(n)) <= 1
      /\ \A v \in PostVals(n) :
           /\ \A p \in Posts(n) : v < p
           /\ ~NonError(reqs[v].status) => Posts(n) = {}

\* a 404 record was validated and posted, another one failed validation
C9_Witness ==
  /\ script \in {2, 3}
  /\ \E n \in Processed : Got404(n) /\ Posts(n) # {}
  /\ \E n \in Processed :
       Got404(n) /\ \E v \in PostVals(n) : reqs[v].status = 400

\* C10: every script: a record whose term-stripped form equals the
\* term-stripped remote record of a 200 GET is in tools_unchanged only, and
\* no PUT or POST is sent for it.
C10_UnchangedNoMutation ==
  \A n \in Processed :
    SameAs(n) =>
      /\ Cardinality(Entries(tools_unchanged, n)) = 1
      /\ ~InOk(n) /\ ~InKo(n)
      /\ \A j \in ReqIdx(n) : reqs[j].method \notin {"PUT", "POST"}

\* a record equal to the remote one only after term-stripping was skipped
C10_Witness ==
  \E n \in Processed :
    /\ SameAs(n)
    /\ \A j \in Gets200(n) : reqs[j].body # files[n] /\ reqs[j].body # remap(files[n])
    /\ InUnchanged(n)

\* the fetch of the importer failed: transport error or error status
FetchFailed == r_status = 0 \/ r_status >= 400

\* C11: biocontainers-importer.py: when the fetch fails, the function does
\* not return normally and no annotation file is created or overwritten.
C11_Claim ==
  FetchFailed =>
    /\ imp_pc # "done"
    /\ \A k \in AnnotationKeys : fs[k] \in {"absent", "old"}

\* C12: every script: while the loop of run_upload runs and after it, every
\* file processed so far has exactly one entry in exactly one of tools_ok,
\* tools_ko and tools_unchanged, the three lengths sum to the number of files
\* processed, and a file whose GET got a status other than 200 and 404 is in
\* tools_ko.  (A run ended by an uncaught exception is the subject of C2.)
C12_Claim ==
  pc \in {"upload", "delete", "done"} =>
    /\ \A n \in Processed :
         /\ Cardinality(Entries(tools_ok, n)) + Cardinality(Entries(tools_ko, n))
              + Cardinality(Entries(tools_unchanged, n)) = 1
         /\ (\E j \in ReqIdx(n) :
               reqs[j].method = "GET" /\ reqs[j].status \notin {0, 200, 404})
              => InKo(n)
    /\ Len(tools_ok) + Len(tools_ko) + Len(tools_unchanged) = i - 1

====
